---- MODULE Spec2Model ----
(***************************************************************************)
(* CouchDBChangesStream (src/src/CouchDBChangesStream.ts, lines 30-303):   *)
(* the async generator fetchChanges, the iterator wrapper that aborts on   *)
(* completion, and stop().                                                 *)
(*                                                                         *)
(* JavaScript runs a generator to its next await or yield without          *)
(* interruption, so every action below runs the generator from one         *)
(* suspension point to the next one.  The suspension points are the pc     *)
(* values:                                                                 *)
(*   idle     created, fetchChanges not started yet                        *)
(*   fetch    awaiting Promise.race([fetch(...), heartbeatPromise])        *)
(*   text     awaiting Promise.race([response.text(), heartbeatPromise])   *)
(*   json     awaiting Promise.race([response.json(), heartbeatPromise])   *)
(*   batch    suspended at the yield of the normal/longpoll for loop       *)
(*   read     awaiting Promise.race([reader.read(), heartbeatPromise])     *)
(*   line     suspended at the yield of the line loop                      *)
(*   backoff  awaiting the retry sleep                                     *)
(*   done     generator finished                                           *)
(*                                                                         *)
(* Response bodies of the streaming feeds are sequences of tokens:         *)
(*   "\n"        newline                                                   *)
(*   " "         a whitespace character                                    *)
(*   "1","2",..  the opening part of the JSON of the change with that seq  *)
(*   "}"         the closing part of that JSON                             *)
(*   "o"         a complete JSON object without a seq field                *)
(*   "x"         text that is not JSON                                     *)
(*   "E"         the literal event:      "D"   the literal data:           *)
(* so a change with seq 2 is the line <<"2","}","\n">> and a chunk         *)
(* boundary may fall inside it.                                            *)
(***************************************************************************)
EXTENDS Integers, Sequences, FiniteSets, TLC

VARIABLES feed, live, since, heartbeat,
          limit, doc_ids, selector, filter, userinfo, injected,
          pc, aborted, childAborted, hbArmed, hbRejected, sleepArmed,
          activeSeq, buffer, rdDone, results, lastSeq, retryCount,
          yielded, lastPull, outcome, reqCount, reqSince,
          wire, srvNext, received, noise, objSent,
          data, everSet, stopAt, stopped, error, thrownCnt, suppressed,
          curOpen, staleOpen, again, hbPhase, hbDelay, sleepDelay,
          request

cfgVars == <<feed, live, since, heartbeat,
            limit, doc_ids, selector, filter, userinfo, injected>>

vars == <<feed, live, since, heartbeat,
          limit, doc_ids, selector, filter, userinfo, injected,
          pc, aborted, childAborted, hbArmed, hbRejected, sleepArmed,
          activeSeq, buffer, rdDone, results, lastSeq, retryCount,
          yielded, lastPull, outcome, reqCount, reqSince,
          wire, srvNext, received, noise, objSent,
          data, everSet, stopAt, stopped, error, thrownCnt, suppressed,
          curOpen, staleOpen, again, hbPhase, hbDelay, sleepDelay,
          request>>

(* ---------------------------- bounds ---------------------------------- *)

\* the server's feed holds the changes with seq 1..MaxSeq
MaxSeq == 2
\* requests issued by one client
MaxReq == 3
\* lines other than changes (blank, malformed, seq-less) the server sends
MaxNoise == 1
\* tokens the server has written that the client has not read yet
MaxWire == 6
\* failures a generator has behind it when the retry window opens
MaxRetry == 8

(* --------------------------- values ----------------------------------- *)

\* JavaScript undefined: an option that is not given, activeSeq before the
\* first assignment, the seq of a JSON object that has no seq field
Unset == -1
\* the option value heartbeat: false
HbFalse == -2
\* the option value heartbeat: true
HbTrue == -3

NL == "\n"
WS == " "

Feeds == {"normal", "longpoll", "continuous", "eventsource"}

isNormal == feed = "normal"
isLongpoll == feed = "longpoll"
isContinuous == feed = "continuous"
isEventsource == feed = "eventsource"

usesHeartbeat == (isContinuous \/ isEventsource) /\ heartbeat # 0

(* the program state as one record, so that the steps of the generator    *)
(* compose as functions from state to state                               *)
Cur ==
  [pc |-> pc, aborted |-> aborted, childAborted |-> childAborted,
   hbArmed |-> hbArmed, hbRejected |-> hbRejected, sleepArmed |-> sleepArmed,
   activeSeq |-> activeSeq, buffer |-> buffer, rdDone |-> rdDone,
   results |-> results, lastSeq |-> lastSeq, retryCount |-> retryCount,
   yielded |-> yielded, lastPull |-> lastPull, outcome |-> outcome,
   reqCount |-> reqCount, reqSince |-> reqSince,
   wire |-> wire, srvNext |-> srvNext, received |-> received,
   noise |-> noise, objSent |-> objSent,
   data |-> data, stopAt |-> stopAt, stopped |-> stopped, error |-> error,
   thrownCnt |-> thrownCnt, suppressed |-> suppressed,
   curOpen |-> curOpen, staleOpen |-> staleOpen,
   again |-> again,
   hbPhase |-> hbPhase, hbDelay |-> hbDelay,
   sleepDelay |-> sleepDelay, request |-> request, random |-> 0]

Become(st) ==
  /\ st.reqCount <= MaxReq
  /\ pc' = st.pc
  /\ aborted' = st.aborted
  /\ childAborted' = st.childAborted
  /\ hbArmed' = st.hbArmed
  /\ hbRejected' = st.hbRejected
  /\ sleepArmed' = st.sleepArmed
  /\ activeSeq' = st.activeSeq
  /\ buffer' = st.buffer
  /\ rdDone' = st.rdDone
  /\ results' = st.results
  /\ lastSeq' = st.lastSeq
  /\ retryCount' = st.retryCount
  /\ yielded' = st.yielded
  /\ lastPull' = st.lastPull
  /\ outcome' = st.outcome
  /\ reqCount' = st.reqCount
  /\ reqSince' = st.reqSince
  /\ wire' = st.wire
  /\ srvNext' = st.srvNext
  /\ received' = st.received
  /\ noise' = st.noise
  /\ objSent' = st.objSent
  /\ stopAt' = st.stopAt
  /\ data' = st.data
  /\ error' = st.error
  /\ thrownCnt' = st.thrownCnt
  /\ suppressed' = st.suppressed
  /\ stopped' = st.stopped
  /\ curOpen' = st.curOpen
  /\ staleOpen' = st.staleOpen
  /\ again' = st.again
  /\ hbPhase' = (IF st.hbArmed THEN st.hbPhase ELSE "none")
  /\ hbDelay' = st.hbDelay
  /\ sleepDelay' = st.sleepDelay
  /\ request' = st.request
  /\ everSet' = (everSet \/ st.activeSeq # Unset)
  /\ UNCHANGED cfgVars

\* the program state in a step in which Math.random() would return j / 100
Rolled(j) == [Cur EXCEPT !.random = j]

\* Math.random() * 100 in whole ms: the ends of [0, 100)
Jitters == {0, 99}

(* ------------------------- pure helpers ------------------------------- *)

\* String.prototype.indexOf on a token sequence: 0-based, -1 when absent
JsIndexOf(s, tok, from) ==
  LET start == IF from < 0 THEN 0 ELSE from
      hits == {i \in 1..Len(s) : i - 1 >= start /\ s[i] = tok}
  IN IF hits = {} THEN -1
     ELSE (CHOOSE i \in hits : \A j \in hits : i <= j) - 1

\* String.prototype.slice(from) / slice(from, to), 0-based, to exclusive
JsSlice(s, from, to) == SubSeq(s, from + 1, to)

\* String.prototype.trim
RECURSIVE TrimLeft(_)
TrimLeft(s) ==
  IF s # <<>> /\ Head(s) = WS THEN TrimLeft(Tail(s)) ELSE s

RECURSIVE TrimRight(_)
TrimRight(s) ==
  IF s # <<>> /\ s[Len(s)] = WS THEN TrimRight(SubSeq(s, 1, Len(s) - 1)) ELSE s

Trim(s) == TrimRight(TrimLeft(s))

\* a prefix test that never matches
StartsWith_Never(s, tok) == FALSE

StartsWith(s, tok) == s # <<>> /\ Head(s) = tok

SeqToks == {ToString(k) : k \in 1..(MaxSeq + 1)}

TokSeq(tok) == CHOOSE k \in 1..(MaxSeq + 1) : ToString(k) = tok

\* JSON.parse(line) followed by reading .seq: JSON.parse accepts whitespace
\* around the value.  The result is the seq of the parsed object (Unset for
\* an object that has no seq field); ParseFails holds when JSON.parse throws.
ParseFails(line) ==
  LET t == Trim(line)
  IN ~ \/ (Len(t) = 2 /\ t[1] \in SeqToks /\ t[2] = "}")
       \/ t = <<"o">>

ParsedSeq(line) ==
  LET t == Trim(line)
  IN IF t = <<"o">> THEN Unset ELSE TokSeq(t[1])

(* ---------------------- steps of the generator ------------------------ *)

\* buildUrl without the override of since by activeSeq
BuildUrl_NoCursor(st) == since

\* buildUrl: the value of the since query parameter (Unset: no parameter)
BuildUrl(st) ==
  IF st.activeSeq # Unset THEN st.activeSeq ELSE since

\* AbortController.abort() on the overall controller without the listener
\* that cascades to the request's controller and clears the timer
Abort_ParentOnly(st) ==
  IF st.aborted THEN st ELSE [st EXCEPT !.aborted = TRUE]

\* the abort listener of fetchChanges together with AbortController.abort;
\* cancelling the request's controller cancels every request issued with it
Abort(st) ==
  IF st.aborted THEN st
  ELSE IF st.pc = "idle" THEN [st EXCEPT !.aborted = TRUE]
  ELSE [st EXCEPT !.aborted = TRUE,
                  !.hbArmed = FALSE,
                  !.childAborted = TRUE,
                  !.curOpen = FALSE,
                  !.staleOpen = 0]

\* the generator finishes and no finally block aborts the controller
Finish_NoAbort(st, how) ==
  [st EXCEPT !.pc = "done", !.outcome = how,
             !.lastPull = IF how = "error" THEN "error" ELSE "done"]

\* the generator finishes (return or throw); the finally block of
\* [Symbol.asyncIterator] aborts the controller
Finish(st, how) ==
  Abort([st EXCEPT !.pc = "done", !.outcome = how,
                   !.lastPull = IF how = "error" THEN "error" ELSE "done"])

\* typeof this.options.heartbeat === "number"
IsNumber(h) == h >= 0

Max(a, b) == IF a >= b THEN a ELSE b

\* a threshold whose buffer is always a tenth of the interval
adjustedTimeout_NoMinimum ==
  LET heartbeatInterval == IF IsNumber(heartbeat) THEN heartbeat ELSE 60000
  IN heartbeatInterval + heartbeatInterval \div 10

\* heartbeatInterval + timeoutBuffer in ms (heartbeatInterval * 0.1 is exact
\* for the intervals of the model, which are multiples of 10)
adjustedTimeout ==
  LET heartbeatInterval == IF IsNumber(heartbeat) THEN heartbeat ELSE 60000
      timeoutBuffer == Max(heartbeatInterval \div 10, 1000)
  IN heartbeatInterval + timeoutBuffer

\* a resetHeartbeat that leaves a pending timer running instead of
\* replacing it
resetHeartbeat_KeepsDeadline(st) ==
  IF ~usesHeartbeat THEN st
  ELSE [st EXCEPT !.childAborted = IF @ THEN st.aborted ELSE FALSE,
                  !.hbPhase = IF st.hbArmed THEN @ ELSE "full",
                  !.hbArmed = TRUE,
                  !.hbDelay = adjustedTimeout,
                  !.hbRejected = FALSE]

\* a resetHeartbeat that keeps the request controller it has, aborted or not
resetHeartbeat_KeepsChild(st) ==
  IF ~usesHeartbeat THEN st
  ELSE [st EXCEPT !.hbArmed = TRUE,
                  !.hbPhase = "full",
                  !.hbDelay = adjustedTimeout,
                  !.hbRejected = FALSE]

\* resetHeartbeat: the pending timer is cleared, an aborted request
\* controller is replaced, and a timer is armed for the full adjustedTimeout
\* (hbPhase "full": nothing of the delay has elapsed yet)
resetHeartbeat(st) ==
  IF ~usesHeartbeat THEN st
  ELSE [st EXCEPT !.childAborted = IF @ THEN st.aborted ELSE FALSE,
                  !.hbArmed = TRUE,
                  !.hbPhase = "full",
                  !.hbDelay = adjustedTimeout,
                  !.hbRejected = FALSE]

\* a timer callback that aborts the overall controller
HeartbeatExpire_AbortsParent(st) ==
  [st EXCEPT !.hbArmed = FALSE,
             !.aborted = TRUE,
             !.childAborted = TRUE,
             !.curOpen = FALSE,
             !.staleOpen = 0,
             !.hbRejected = TRUE]

\* the callback of the heartbeat timer
HeartbeatExpire(st) ==
  [st EXCEPT !.hbArmed = FALSE,
             !.childAborted = TRUE,
             !.curOpen = FALSE,
             !.staleOpen = 0,
             !.hbRejected = TRUE]

\* the fields of the options argument of the constructor
ConfigKeys ==
  {"feed", "live", "since", "heartbeat", "limit", "doc_ids", "selector",
   "filter", "fetch", "abortController"}

\* the keys of this.options: the constructor takes abortController and
\* fetch out of the options it keeps
OptionKeys == ConfigKeys \ {"abortController", "fetch"}

\* value !== undefined && value !== "" for the value of the option key
\* (feed and live are always given in the model; an empty list and an
\* empty object are values)
Defined(key) ==
  CASE key = "since" -> since # Unset
    [] key = "heartbeat" -> heartbeat # Unset
    [] key = "limit" -> limit # Unset
    [] key = "doc_ids" -> doc_ids # "undefined"
    [] key = "selector" -> selector # "undefined"
    [] key = "filter" -> filter \notin {"undefined", ""}
    [] key \in {"fetch", "abortController"} -> injected
    [] OTHER -> TRUE

\* a buildUrl that serialises live like any other option
QueryKeys_KeepsLive(st) ==
  {key \in OptionKeys :
     Defined(key) /\ key \notin {"doc_ids", "selector"}}
  \cup (IF st.activeSeq # Unset THEN {"since"} ELSE {})

\* buildUrl: the names of the query parameters of the URL
QueryKeys(st) ==
  {key \in OptionKeys :
     Defined(key) /\ key \notin {"doc_ids", "selector", "live"}}
  \cup (IF st.activeSeq # Unset THEN {"since"} ELSE {})

\* Array.isArray(doc_ids) && doc_ids.length > 0
hasDocIds == doc_ids = "ids"

\* selector && typeof selector === "object": true of every object, the
\* empty one included
hasSelector == selector # "undefined"

\* which option the request body carries
requestBody ==
  IF hasDocIds THEN "doc_ids" ELSE IF hasSelector THEN "selector" ELSE "none"

\* body ? "POST" : "GET"; JSON.stringify of an object is never empty
method == IF requestBody # "none" THEN "POST" ELSE "GET"

\* url.username and url.password of the base URL
username == IF userinfo \in {"user", "user:pass"} THEN "user" ELSE ""
password == IF userinfo \in {":pass", "user:pass"} THEN "pass" ELSE ""

\* the arguments of this.fetch(...): the URL is origin + pathname + search,
\* which leaves out the userinfo
Request(st) ==
  [method |-> method,
   body |-> requestBody,
   contentType |-> (method = "POST"),
   authorization |-> (username # "" /\ password # ""),
   urlUserinfo |-> FALSE,
   query |-> QueryKeys(st)]

\* the main loop without its test of signal.aborted
LoopTop_NoAbortTest(st) ==
  LET h == resetHeartbeat(st)
      s == BuildUrl(h)
  IN [h EXCEPT !.pc = "fetch",
               !.reqCount = @ + 1,
               !.reqSince = s,
               !.request = Request(h),
               !.staleOpen = @ + (IF st.curOpen THEN 1 ELSE 0),
               !.curOpen = ~h.childAborted,
               !.wire = <<>>,
               !.received = <<>>,
               !.srvNext = (IF s = Unset THEN 0 ELSE s) + 1]

\* while (!signal.aborted) { try { resetHeartbeat(); buildUrl(); fetch(...)
LoopTop(st) ==
  IF st.aborted THEN Finish(st, "clean")
  ELSE LET h == resetHeartbeat(st)
           s == BuildUrl(h)
       IN [h EXCEPT !.pc = "fetch",
                    !.reqCount = @ + 1,
                    !.reqSince = s,
                    !.request = Request(h),
                    !.staleOpen = @ + (IF st.curOpen THEN 1 ELSE 0),
                    !.curOpen = ~h.childAborted,
                    !.wire = <<>>,
                    !.received = <<>>,
                    !.srvNext = (IF s = Unset THEN 0 ELSE s) + 1]

Min(a, b) == IF a <= b THEN a ELSE b

\* an exponential backoff without its cap
backoff_NoCap(k) == 2 ^ k * 100

\* Math.min(2 ** retryCount * 100, 30000) for retryCount = k
backoff(k) == Min(2 ^ k * 100, 30000)

\* a catch block that starts the count afresh after a request that
\* delivered records
Catch_ResetsAfterSuccess(st, e) ==
  IF st.aborted THEN Finish(st, "clean")
  ELSE IF live
    THEN LET k == IF st.received # <<>> \/ st.results # <<>> \/ st.data # <<>>
                  THEN 1 ELSE st.retryCount + 1
         IN [st EXCEPT !.retryCount = k,
                       !.hbArmed = FALSE,
                       !.sleepArmed = TRUE,
                       !.sleepDelay = backoff(k) + st.random,
                       !.pc = "backoff"]
    ELSE Finish(st, "error")

\* a catch block that rethrows when live is off or the error is an HTTP status
Catch_HttpFatal(st, e) ==
  IF st.aborted THEN Finish(st, "clean")
  ELSE IF live /\ e # "http"
    THEN [st EXCEPT !.retryCount = @ + 1,
                    !.hbArmed = FALSE,
                    !.sleepArmed = TRUE,
                    !.sleepDelay = backoff(st.retryCount + 1) + st.random,
                    !.pc = "backoff"]
    ELSE Finish(st, "error")

\* a catch block without the test of signal.aborted
Catch_NoAbortTest(st, e) ==
  IF live
    THEN [st EXCEPT !.retryCount = @ + 1,
                    !.hbArmed = FALSE,
                    !.sleepArmed = TRUE,
                    !.sleepDelay = backoff(st.retryCount + 1) + st.random,
                    !.pc = "backoff"]
    ELSE Finish(st, "error")

\* a catch block that retries whatever live is
Catch_AlwaysRetry(st, e) ==
  IF st.aborted THEN Finish(st, "clean")
  ELSE [st EXCEPT !.retryCount = @ + 1,
                  !.hbArmed = FALSE,
                  !.sleepArmed = TRUE,
                  !.sleepDelay = backoff(st.retryCount + 1) + st.random,
                  !.pc = "backoff"]

\* catch (error) { ... } entered with the error e
Catch(st, e) ==
  IF st.aborted THEN Finish(st, "clean")
  ELSE IF live
    THEN [st EXCEPT !.retryCount = @ + 1,
                    !.hbArmed = FALSE,
                    !.sleepArmed = TRUE,
                    !.sleepDelay = backoff(st.retryCount + 1) + st.random,
                    !.pc = "backoff"]
    ELSE Finish(st, "error")

\* an error e is thrown inside the try block: the model records it (error,
\* thrownCnt, suppressed are history only) and control enters the catch block.
\* Every error but a parse error is the end of the current request; a parse
\* error leaves its body open, the reader is not cancelled.
Throw(st, e) ==
  Catch([st EXCEPT !.error = e,
                   !.thrownCnt = @ + 1,
                   !.suppressed = (@ \/ st.aborted),
                   !.curOpen = IF e = "parse" THEN @ ELSE FALSE], e)

\* a batch loop that issues the next request in normal mode as well
BatchLoop_NormalPolls(st) ==
  IF st.results # <<>>
  THEN [st EXCEPT !.activeSeq = Head(st.results),
                  !.yielded = Append(@, Head(st.results)),
                  !.results = Tail(@),
                  !.lastPull = "record",
                  !.pc = "batch"]
  ELSE LET a == IF st.lastSeq # Unset /\ st.lastSeq # 0
                THEN [st EXCEPT !.activeSeq = st.lastSeq] ELSE st
       IN IF ~a.aborted THEN LoopTop(a) ELSE Finish(a, "clean")

\* a batch loop that ends a longpoll feed when a response has no results
BatchLoop_StopsOnEmpty(st) ==
  IF st.results # <<>>
  THEN [st EXCEPT !.activeSeq = Head(st.results),
                  !.yielded = Append(@, Head(st.results)),
                  !.results = Tail(@),
                  !.lastPull = "record",
                  !.pc = "batch"]
  ELSE LET a == IF st.lastSeq # Unset /\ st.lastSeq # 0
                THEN [st EXCEPT !.activeSeq = st.lastSeq] ELSE st
       IN IF isLongpoll /\ ~a.aborted /\ st.data # <<>>
          THEN LoopTop(a) ELSE Finish(a, "clean")

\* for (const change of data.results) { activeSeq = change.seq; yield } ...
BatchLoop(st) ==
  IF st.results # <<>>
  THEN [st EXCEPT !.activeSeq = Head(st.results),
                  !.yielded = Append(@, Head(st.results)),
                  !.results = Tail(@),
                  !.lastPull = "record",
                  !.pc = "batch"]
  ELSE LET a == IF st.lastSeq # Unset /\ st.lastSeq # 0
                THEN [st EXCEPT !.activeSeq = st.lastSeq] ELSE st
       IN IF isLongpoll /\ ~a.aborted THEN LoopTop(a) ELSE Finish(a, "clean")

\* an end of the body that leads to a new request instead of a return
AfterLines_Reconnects(st) ==
  IF st.aborted THEN Finish(st, "clean")
  ELSE IF st.rdDone THEN LoopTop(st)
  ELSE [st EXCEPT !.pc = "read"]

\* if (done || signal.aborted) return; otherwise the stream loop goes on
\* to the next reader.read()
AfterLines(st) ==
  IF st.rdDone \/ st.aborted THEN Finish(st, "clean")
  ELSE [st EXCEPT !.pc = "read"]

\* the inner while loop over the complete lines of the buffer
\* a line loop that, as event-stream readers do, ignores a line of an
\* eventsource body that has no field name it knows
RECURSIVE LineLoop_SkipsUnprefixed(_)
LineLoop_SkipsUnprefixed(st) ==
  LET newlineIndex == JsIndexOf(st.buffer, NL, 0)
  IN IF newlineIndex < 0
     THEN AfterLines(st)
     ELSE IF st.aborted THEN Finish(st, "clean")
     ELSE
       LET raw == Trim(JsSlice(st.buffer, 0, newlineIndex))
           rest == JsSlice(st.buffer, newlineIndex + 1, Len(st.buffer))
           s1 == [st EXCEPT !.buffer = rest]
       IN IF isEventsource /\ ~StartsWith(raw, "D")
          THEN LineLoop_SkipsUnprefixed(s1)
          ELSE
            LET line == IF isEventsource THEN Tail(raw) ELSE raw
            IN IF Trim(line) = <<>>
               THEN IF st.rdDone THEN Finish(s1, "clean")
                    ELSE LineLoop_SkipsUnprefixed(s1)
               ELSE IF ~ParseFails(line)
               THEN [s1 EXCEPT !.activeSeq = ParsedSeq(line),
                               !.yielded = Append(@, ParsedSeq(line)),
                               !.lastPull = "record",
                               !.pc = "line"]
               ELSE IF ~s1.aborted /\ JsIndexOf(rest, NL, newlineIndex) # 0
               THEN Throw(s1, "parse")
               ELSE LineLoop_SkipsUnprefixed(s1)

\* a line loop that takes a blank line for the end of the feed
RECURSIVE LineLoop_BlankEnds(_)
LineLoop_BlankEnds(st) ==
  LET newlineIndex == JsIndexOf(st.buffer, NL, 0)
  IN IF newlineIndex < 0
     THEN AfterLines(st)
     ELSE IF st.aborted THEN Finish(st, "clean")
     ELSE
       LET raw == Trim(JsSlice(st.buffer, 0, newlineIndex))
           rest == JsSlice(st.buffer, newlineIndex + 1, Len(st.buffer))
           s1 == [st EXCEPT !.buffer = rest]
       IN IF isEventsource /\ StartsWith(raw, "E") THEN LineLoop_BlankEnds(s1)
          ELSE
            LET line == IF isEventsource /\ StartsWith(raw, "D")
                        THEN Tail(raw) ELSE raw
            IN IF Trim(line) = <<>>
               THEN Finish(s1, "clean")
               ELSE IF ~ParseFails(line)
               THEN [s1 EXCEPT !.activeSeq = ParsedSeq(line),
                               !.yielded = Append(@, ParsedSeq(line)),
                               !.lastPull = "record",
                               !.pc = "line"]
               ELSE IF ~s1.aborted /\ JsIndexOf(rest, NL, newlineIndex) # 0
               THEN Throw(s1, "parse")
               ELSE LineLoop_BlankEnds(s1)

RECURSIVE LineLoop(_)
LineLoop(st) ==
  LET newlineIndex == JsIndexOf(st.buffer, NL, 0)
  IN IF newlineIndex < 0
     THEN AfterLines(st)
     ELSE IF st.aborted THEN Finish(st, "clean")
     ELSE
       LET raw == Trim(JsSlice(st.buffer, 0, newlineIndex))
           rest == JsSlice(st.buffer, newlineIndex + 1, Len(st.buffer))
           s1 == [st EXCEPT !.buffer = rest]
       IN IF isEventsource /\ StartsWith(raw, "E") THEN LineLoop(s1)
          ELSE
            LET line == IF isEventsource /\ StartsWith(raw, "D")
                        THEN Tail(raw) ELSE raw
            IN IF Trim(line) = <<>>
               THEN IF st.rdDone THEN Finish(s1, "clean") ELSE LineLoop(s1)
               ELSE IF ~ParseFails(line)
               THEN [s1 EXCEPT !.activeSeq = ParsedSeq(line),
                               !.yielded = Append(@, ParsedSeq(line)),
                               !.lastPull = "record",
                               !.pc = "line"]
               ELSE IF ~s1.aborted /\ JsIndexOf(rest, NL, newlineIndex) # 0
               THEN Throw(s1, "parse")
               ELSE LineLoop(s1)

\* an iterator that starts every iteration with a new AbortController
Iterate_FreshController(st) ==
  [st EXCEPT !.pc = "idle", !.again = TRUE, !.aborted = FALSE,
             !.childAborted = FALSE,
             !.retryCount = 0, !.buffer = <<>>, !.rdDone = FALSE,
             !.results = <<>>, !.data = <<>>, !.lastSeq = Unset,
             !.lastPull = "none", !.outcome = "none"]

\* [Symbol.asyncIterator]() creates a new generator: the locals of
\* fetchChanges start afresh, the fields of the client (abortController,
\* activeSeq) stay as they are
Iterate(st) ==
  [st EXCEPT !.pc = "idle", !.again = TRUE,
             !.retryCount = 0, !.buffer = <<>>, !.rdDone = FALSE,
             !.results = <<>>, !.data = <<>>, !.lastSeq = Unset,
             !.lastPull = "none", !.outcome = "none"]

\* const reader = response.body?.getReader(); ... while (!signal.aborted)
StreamLoop(st) ==
  IF st.aborted THEN Finish(st, "clean")
  ELSE [st EXCEPT !.pc = "read"]

(* ------------------------------ Init ---------------------------------- *)

\* the fields and history that are the same in every initial state
InitRest ==
  /\ aborted = FALSE
  /\ childAborted = FALSE
  /\ hbArmed = FALSE
  /\ hbRejected = FALSE
  /\ sleepArmed = FALSE
  /\ activeSeq = Unset
  /\ buffer = <<>>
  /\ rdDone = FALSE
  /\ results = <<>>
  /\ lastSeq = Unset
  /\ yielded = <<>>
  /\ lastPull = "none"
  /\ outcome = "none"
  /\ reqSince = Unset
  /\ wire = <<>>
  /\ srvNext = 1
  /\ received = <<>>
  /\ noise = 0
  /\ objSent = FALSE
  /\ everSet = FALSE
  /\ stopAt = Unset
  /\ stopped = FALSE
  /\ data = <<>>
  /\ error = "none"
  /\ thrownCnt = 0
  /\ suppressed = FALSE
  /\ staleOpen = 0
  /\ again = FALSE
  /\ hbPhase = "none"
  /\ hbDelay = 0
  /\ sleepDelay = 0
  /\ request = [method |-> "none", body |-> "none", contentType |-> FALSE,
                authorization |-> FALSE, urlUserinfo |-> FALSE, query |-> {}]

\* the options the claims about the feed leave at their defaults
InitDefaults ==
  /\ limit = Unset
  /\ doc_ids = "undefined"
  /\ selector = "undefined"
  /\ filter = "undefined"
  /\ userinfo = "none"
  /\ injected = FALSE

\* the client after its constructor
InitClient ==
  /\ pc = "idle"
  /\ retryCount = 0
  /\ reqCount = 0
  /\ curOpen = FALSE
  /\ InitRest

Init ==
  /\ feed \in Feeds
  /\ live \in BOOLEAN
  /\ since \in {Unset, 1}
  /\ heartbeat \in {Unset, 0}
  /\ InitDefaults
  /\ InitClient

\* a client without retry, over the values of the heartbeat option
InitHb ==
  /\ feed \in Feeds
  /\ live = FALSE
  /\ since = Unset
  /\ heartbeat \in {Unset, HbFalse, HbTrue, 0, 3000, 20000, 30000}
  /\ InitDefaults
  /\ InitClient

\* a client whose generator has issued a request: the first one, or with
\* live the one after k requests that the transport rejected; the history
\* variables describe the window that opens here (reqCount counts its
\* requests)
InitBackoff ==
  /\ feed \in {"normal", "continuous"}
  /\ live \in BOOLEAN
  /\ since = Unset
  /\ heartbeat = 0
  /\ pc = "fetch"
  /\ retryCount \in (IF live THEN 0..MaxRetry ELSE {0})
  /\ InitDefaults
  /\ reqCount = 1
  /\ curOpen = TRUE
  /\ InitRest

\* clients with the watchdog off, over the options that shape the request:
\* the body and the credentials, or the query parameters
InitReq ==
  /\ heartbeat = 0
  /\ \/ /\ feed \in {"normal", "continuous"}
        /\ live = FALSE
        /\ since = Unset
        /\ limit = Unset
        /\ filter = "undefined"
        /\ injected = FALSE
        /\ doc_ids \in {"undefined", "empty", "ids"}
        /\ selector \in {"undefined", "empty", "sel"}
        /\ userinfo \in {"none", "user", ":pass", "user:pass"}
     \/ /\ feed \in {"longpoll", "continuous"}
        /\ live \in BOOLEAN
        /\ since \in {Unset, 1}
        /\ limit \in {Unset, 1}
        /\ filter \in {"undefined", "", "f"}
        /\ injected \in BOOLEAN
        /\ doc_ids = "undefined"
        /\ selector = "undefined"
        /\ userinfo = "none"
  /\ InitClient

(* ----------------------------- actions -------------------------------- *)

\* the consumer calls next()
Pull ==
  \/ /\ pc = "idle"
     /\ Become(LoopTop([Cur EXCEPT !.childAborted = aborted]))
  \/ /\ pc = "batch"
     /\ Become(BatchLoop(Cur))
  \/ /\ pc = "line"
     /\ \E j \in Jitters : Become(LineLoop(Rolled(j)))
  \/ /\ pc = "done"
     /\ lastPull # "done"
     /\ Become([Cur EXCEPT !.lastPull = "done"])

\* stop(), or abort() on the abortController the caller supplied; stopped
\* records that it was this call that aborted the controller
Stop ==
  /\ Become(Abort([Cur EXCEPT
       !.stopAt = IF ~aborted /\ pc \in {"batch", "line"}
                  THEN Len(yielded) ELSE @,
       !.stopped = (@ \/ ~aborted)]))

\* [Symbol.asyncIterator]() is called again after an iteration has ended
NewIteration ==
  /\ pc = "done"
  /\ Become(Iterate(Cur))

\* the consumer leaves its for-await loop: iterator.return() at a yield
ConsumerReturn ==
  /\ pc \in {"batch", "line"}
  /\ Become(Finish(Cur, "closed"))

\* a response whose body is read into the buffer of the connection before
FetchResolve_KeepsBuffer ==
  /\ pc = "fetch"
  /\ \E resp \in {"ok", "status", "nobody"}, j \in Jitters :
       Become(IF resp = "status" THEN [Cur EXCEPT !.pc = "text"]
              ELSE IF isNormal \/ isLongpoll THEN [Cur EXCEPT !.pc = "json"]
              ELSE IF resp = "nobody" THEN Throw(Rolled(j), "nobody")
              ELSE StreamLoop([Cur EXCEPT !.rdDone = FALSE]))

\* fetch() resolves: an error status, a batch body, a missing body, or a
\* body to read with a new decoder and an empty buffer
FetchResolve ==
  /\ pc = "fetch"
  /\ \E resp \in {"ok", "status", "nobody"}, j \in Jitters :
       Become(IF resp = "status" THEN [Cur EXCEPT !.pc = "text"]
              ELSE IF isNormal \/ isLongpoll THEN [Cur EXCEPT !.pc = "json"]
              ELSE IF resp = "nobody" THEN Throw(Rolled(j), "nobody")
              ELSE StreamLoop([Cur EXCEPT !.buffer = <<>>, !.rdDone = FALSE]))

\* fetch(), response.text(), response.json() or reader.read() rejects
TransportReject ==
  /\ pc \in {"fetch", "text", "json", "read"}
  /\ \E j \in Jitters : Become(Throw(Rolled(j), "transport"))

\* response.text() resolves and the HTTP error is thrown
TextSettle ==
  /\ pc = "text"
  /\ \E j \in Jitters : Become(Throw(Rolled(j), "http"))

\* response.json() resolves with {results, last_seq}: the server answers
\* with the n changes that follow the request's since
JsonResolve ==
  /\ pc = "json"
  /\ \E n \in 0..MaxSeq :
       /\ srvNext + n - 1 <= MaxSeq
       /\ limit # Unset => n <= limit
       /\ Become(BatchLoop([Cur EXCEPT
             !.results = [i \in 1..n |-> srvNext + i - 1],
             !.data = [i \in 1..n |-> srvNext + i - 1],
             !.curOpen = FALSE,
             !.lastSeq = srvNext + n - 1]))

\* the last byte of the response body written so far (a newline when the
\* body is still empty)
LastSent ==
  IF wire # <<>> THEN wire[Len(wire)]
  ELSE IF received # <<>> THEN received[Len(received)]
  ELSE NL

\* the server writes one more line to the response body: a change, a blank
\* line, a line that is not JSON, a JSON object without seq (in eventsource
\* framed by data: or, as "bare", unframed), or, as "cut", a change whose
\* line the body ends in without a newline
ServerEmit ==
  /\ pc = "read"
  /\ LastSent = NL
  /\ \E kind \in {"change", "blank", "bad", "obj", "bare", "cut"} :
       LET json == IF kind \in {"change", "cut"} THEN <<ToString(srvNext), "}">>
                   ELSE IF kind \in {"obj", "bare"} THEN <<"o">>
                   ELSE IF kind = "bad" THEN <<"x">>
                   ELSE <<>>
           line == IF isEventsource /\ kind = "change"
                   THEN <<"E", NL, "D", WS>> \o json \o <<NL, NL>>
                   ELSE IF isEventsource /\ kind = "obj"
                   THEN <<"D">> \o json \o <<NL>>
                   ELSE IF kind = "cut" THEN json
                   ELSE json \o <<NL>>
           sent == srvNext - 1 - (IF reqSince = Unset THEN 0 ELSE reqSince)
       IN /\ kind = "change" => srvNext <= MaxSeq
          /\ kind = "cut" => srvNext <= MaxSeq
          /\ kind = "bare" => isEventsource
          /\ (kind = "change" /\ limit # Unset) => sent < limit
          /\ kind # "change" => noise < MaxNoise
          /\ Len(wire) + Len(line) <= MaxWire + (IF isEventsource THEN 2 ELSE 0)
          /\ Become([Cur EXCEPT
                !.wire = @ \o line,
                !.srvNext = IF kind = "change" THEN @ + 1 ELSE @,
                !.noise = IF kind = "change" THEN @ ELSE @ + 1,
                !.objSent = (@ \/ kind \in {"obj", "bare"})])

\* a read that replaces the buffer by the chunk, losing the partial line
ReadChunk_DropsPartial ==
  /\ pc = "read"
  /\ \E k \in 1..Len(wire), j \in Jitters :
       LET value == SubSeq(wire, 1, k)
           s1 == resetHeartbeat(Rolled(j))
       IN Become(LineLoop([s1 EXCEPT
             !.wire = SubSeq(wire, k + 1, Len(wire)),
             !.received = @ \o value,
             !.buffer = value,
             !.rdDone = FALSE]))

\* a read that also completes while the consumer holds a record
ReadChunk_Eager ==
  /\ pc \in {"read", "line"}
  /\ wire # <<>>
  /\ \E k \in 1..Len(wire), j \in Jitters :
       LET value == SubSeq(wire, 1, k)
           s1 == resetHeartbeat(Rolled(j))
       IN Become(LineLoop([s1 EXCEPT
             !.wire = SubSeq(wire, k + 1, Len(wire)),
             !.received = @ \o value,
             !.buffer = @ \o value,
             !.rdDone = FALSE]))

\* reader.read() resolves with a chunk: the first k unread tokens
ReadChunk ==
  /\ pc = "read"
  /\ \E k \in 1..Len(wire), j \in Jitters :
       LET value == SubSeq(wire, 1, k)
           s1 == resetHeartbeat(Rolled(j))
       IN Become(LineLoop([s1 EXCEPT
             !.wire = SubSeq(wire, k + 1, Len(wire)),
             !.received = @ \o value,
             !.buffer = @ \o value,
             !.rdDone = FALSE]))

\* reader.read() resolves with {done: true}: the body ended cleanly
ReadDone ==
  /\ pc = "read"
  /\ wire = <<>>
  /\ \E j \in Jitters :
       Become(LineLoop([resetHeartbeat(Rolled(j)) EXCEPT !.rdDone = TRUE,
                                                         !.curOpen = FALSE]))

\* time passes while the heartbeat timer is armed: a part of its delay
Elapse ==
  /\ hbArmed
  /\ hbPhase = "full"
  /\ Become([Cur EXCEPT !.hbPhase = "part"])

\* the rest of the delay passes and the heartbeat timer expires
HeartbeatTimeout ==
  /\ hbArmed
  /\ hbPhase = "part"
  /\ Become(HeartbeatExpire(Cur))

\* a Promise.race settles with the rejected heartbeatPromise
HeartbeatReject ==
  /\ pc \in {"fetch", "text", "json", "read"}
  /\ hbRejected
  /\ \E j \in Jitters : Become(Throw(Rolled(j), "heartbeat"))

\* the retry sleep elapses
BackoffElapsed ==
  /\ pc = "backoff"
  /\ sleepArmed
  /\ Become(LoopTop([Cur EXCEPT !.sleepArmed = FALSE, !.sleepDelay = 0]))

Next ==
  \/ Pull
  \/ Stop
  \/ ConsumerReturn
  \/ FetchResolve
  \/ TransportReject
  \/ TextSettle
  \/ JsonResolve
  \/ ServerEmit
  \/ ReadChunk
  \/ ReadDone
  \/ Elapse
  \/ HeartbeatTimeout
  \/ HeartbeatReject
  \/ BackoffElapsed
  \/ NewIteration

Spec == Init /\ [][Next]_vars

\* the steps a client without retry can take
NextHb ==
  \/ Pull
  \/ Stop
  \/ ConsumerReturn
  \/ FetchResolve
  \/ TransportReject
  \/ TextSettle
  \/ JsonResolve
  \/ ServerEmit
  \/ ReadChunk
  \/ ReadDone
  \/ Elapse
  \/ HeartbeatTimeout
  \/ HeartbeatReject
  \/ NewIteration

SpecHb == InitHb /\ [][NextHb]_vars

\* the steps a client with the watchdog off can take
NextBackoff ==
  \/ Pull
  \/ Stop
  \/ ConsumerReturn
  \/ FetchResolve
  \/ TransportReject
  \/ TextSettle
  \/ JsonResolve
  \/ ServerEmit
  \/ ReadChunk
  \/ ReadDone
  \/ BackoffElapsed
  \/ NewIteration

SpecBackoff == InitBackoff /\ [][NextBackoff]_vars

SpecReq == InitReq /\ [][NextBackoff]_vars

TypeOK ==
  /\ pc \in {"idle", "fetch", "text", "json", "batch", "read", "line",
             "backoff", "done"}
  /\ reqCount \in 0..MaxReq
  /\ retryCount \in 0..(MaxRetry + MaxReq)
  /\ sleepDelay \in 0..30099
  /\ outcome \in {"none", "clean", "closed", "error"}
  /\ thrownCnt \in 0..(MaxReq + 1)
  /\ staleOpen \in 0..MaxReq
  /\ again \in BOOLEAN
  /\ stopped \in BOOLEAN
  /\ stopped => aborted
  /\ hbPhase \in {"none", "full", "part"}
  /\ hbArmed <=> hbPhase # "none"

(* ------------------------ the claims ---------------------------------- *)

\* the seq of the first change the server sends to a client configured
\* with since
First == (IF since = Unset THEN 0 ELSE since) + 1

\* the body made of the newline-terminated lines of the changes a..b
RECURSIVE WireBody(_, _)
WireBody(a, b) ==
  IF a > b THEN <<>> ELSE <<ToString(a), "}", NL>> \o WireBody(a + 1, b)

\* the changes with seq a..b as yielded records
Changes(a, b) == [i \in 1..(b - a + 1) |-> a + i - 1]

\* the records of a body by the framing rules of the spec, section 4.2:
\* every complete line in turn; event: lines and blank lines carry nothing,
\* data: is stripped; the first line that is not JSON ends the parse
RECURSIVE WireRecords(_, _)
WireRecords(bytes, es) ==
  LET nl == JsIndexOf(bytes, NL, 0)
  IN IF nl < 0 THEN <<>>
     ELSE LET raw == Trim(SubSeq(bytes, 1, nl))
              rest == SubSeq(bytes, nl + 2, Len(bytes))
              body == IF es /\ StartsWith(raw, "D") THEN Tail(raw) ELSE raw
          IN IF es /\ StartsWith(raw, "E") THEN WireRecords(rest, es)
             ELSE IF Trim(body) = <<>> THEN WireRecords(rest, es)
             ELSE IF ParseFails(body) THEN <<>>
             ELSE <<ParsedSeq(body)>> \o WireRecords(rest, es)

\* C1: in every feed mode, once stop() was called while the generator was
\* suspended after a yielded record, no further record is yielded and the
\* next pull ends the iteration.
C1_StopEndsIteration ==
  stopAt # Unset =>
    /\ Len(yielded) = stopAt
    /\ pc \in {"batch", "line", "done", "idle"}

\* C2: once the overall token is cancelled no step issues a request.
C2_NoRequestAfterAbort ==
  [][aborted => reqCount' = reqCount]_vars

\* C2 witness: every request failed, the token was cancelled during the
\* last backoff sleep, and the generator then finished without a request
C2_Witness ==
  /\ pc = "done" /\ outcome = "clean" /\ aborted
  /\ retryCount >= 1 /\ reqCount = retryCount
  /\ ~suppressed /\ ~sleepArmed

\* C3: a stop() during the backoff sleep ends the sleep at once, so the
\* token is never cancelled while the generator still waits for the sleep.
C3_StopCancelsSleep ==
  aborted => (pc # "backoff" /\ ~sleepArmed)

\* C4: live continuous feed, server sending only changes after the
\* request's since: the yielded records are the changes First, First+1, ...
\* without gap or repetition, and all changes sent when the body ends.
C4_NoGapNoDuplicate ==
  (isContinuous /\ live /\ ~objSent) =>
    /\ yielded = Changes(First, First + Len(yielded) - 1)
    /\ (pc = "done" /\ rdDone /\ outcome = "clean")
          => yielded = Changes(First, srvNext - 1)

\* C4 witness: change 1 was yielded, the connection failed, the retry asked
\* for since=1 and the feed ended with both changes yielded once
C4_Witness ==
  /\ isContinuous /\ live /\ ~objSent /\ since = Unset
  /\ retryCount >= 1 /\ reqSince = 1
  /\ pc = "done" /\ rdDone /\ outcome = "clean"
  /\ yielded = <<1, 2>>

\* C5: a request carries since = activeSeq once the cursor has been set,
\* and the configured since before that.
C5_SinceIsCursor ==
  pc = "fetch" => reqSince = (IF everSet THEN activeSeq ELSE since)

\* C6: normal mode, the request answered by a successful response: the
\* records yielded are the results array in order, then the iteration ends
\* after that one request.
C6_NormalYieldsResults ==
  (/\ isNormal /\ pc = "done" /\ outcome = "clean"
   /\ lastSeq # Unset /\ thrownCnt = 0) =>
    /\ yielded = data
    /\ results = <<>>
    /\ reqCount = 1
    /\ lastPull = "done"

\* C6 witness: a normal response with two results, both yielded, ended
C6_Witness ==
  /\ isNormal /\ pc = "done" /\ outcome = "clean"
  /\ Len(data) = 2 /\ yielded = data /\ reqCount = 1 /\ thrownCnt = 0

\* C7: continuous, live off, body of newline-terminated changes and a clean
\* end: exactly these changes are yielded in order, without error, after
\* one request.
C7_ContinuousCleanEnd ==
  (/\ isContinuous /\ ~live
   /\ pc = "done" /\ rdDone
   /\ \E n \in 0..MaxSeq : received = WireBody(First, First + n - 1))
  => /\ \A n \in 0..MaxSeq :
          received = WireBody(First, First + n - 1)
            => yielded = Changes(First, First + n - 1)
     /\ outcome = "clean" /\ error = "none" /\ lastPull = "done"
     /\ reqCount = 1

\* C7 witness: both changes received in a body that ended cleanly
C7_Witness ==
  /\ isContinuous /\ ~live /\ pc = "done" /\ rdDone
  /\ received = WireBody(1, 2) /\ yielded = <<1, 2>>

\* C8: live off: the step in which a failure is seen while the token is not
\* cancelled ends the iteration with the error, with every record of the
\* body received before the failure yielded; no request is issued in that
\* step or in any later one, and no record is yielded later.
C8_FailureEndsIteration ==
  /\ [][(~live /\ ~aborted /\ thrownCnt' > thrownCnt) =>
          /\ pc' = "done" /\ outcome' = "error" /\ lastPull' = "error"
          /\ reqCount' = reqCount
          /\ results' = <<>>
          /\ (isContinuous \/ isEventsource)
                => yielded' = WireRecords(received', isEventsource)]_vars
  /\ [][(~live /\ outcome = "error" /\ pc' # "idle") =>
          (pc' = "done" /\ outcome' = "error"
           /\ reqCount' = reqCount /\ yielded' = yielded)]_vars

\* C8 witness: one valid line, then a malformed line: one record, then the
\* parse error
C8_Witness ==
  /\ isContinuous /\ ~live /\ pc = "done" /\ outcome = "error"
  /\ error = "parse" /\ yielded = <<1>> /\ lastPull = "error"

\* C9: live on: no failure ends the iteration with an error; a failure seen
\* while the token is not cancelled starts a backoff sleep, and the end of
\* the sleep issues a new request.
C9_LiveAlwaysRetries ==
  /\ [](live => (outcome # "error" /\ lastPull # "error"))
  /\ [][(live /\ ~aborted /\ thrownCnt' > thrownCnt) =>
          (pc' = "backoff" /\ sleepArmed' /\ ~aborted')]_vars
  /\ [][(live /\ ~aborted /\ pc = "backoff" /\ pc' # "backoff") =>
          (pc' = "fetch" /\ reqCount' = reqCount + 1)]_vars

\* C9 witness: an HTTP status failure after an earlier failure, and the
\* third request issued
C9_Witness ==
  /\ live /\ ~aborted /\ thrownCnt = 2 /\ error = "http"
  /\ pc = "fetch" /\ reqCount = 3

\* C10: a failure seen while the overall token is cancelled ends the
\* iteration without error and without a retry, whatever live is.
C10_FailureSuppressed ==
  [][(aborted /\ thrownCnt' > thrownCnt) =>
       /\ pc' = "done" /\ outcome' = "clean" /\ lastPull' = "done"
       /\ retryCount' = retryCount /\ ~sleepArmed'
       /\ reqCount' = reqCount]_vars

\* C10 witness: live on, the token was cancelled while the request was in
\* flight, the request then failed and the iteration ended cleanly
C10_Witness ==
  /\ live /\ suppressed /\ error = "transport"
  /\ pc = "done" /\ outcome = "clean" /\ retryCount = 0

\* C11: longpoll with live on never ends on its own: the generator finishes
\* only when the overall token is already cancelled or the consumer leaves;
\* while the token is not cancelled the end of a batch issues the next
\* request, a failure starts a backoff and the end of the backoff issues
\* the retry.
C11_LongpollNeverEnds ==
  /\ [][(isLongpoll /\ live /\ pc # "done" /\ pc' = "done") =>
          (aborted \/ outcome' = "closed")]_vars
  /\ [][(isLongpoll /\ live /\ ~aborted' /\ pc \in {"json", "batch"}
         /\ pc' \notin {"json", "batch"}) =>
          \/ (pc' = "fetch" /\ reqCount' = reqCount + 1 /\ results' = <<>>)
          \/ (pc' = "backoff" /\ thrownCnt' > thrownCnt)]_vars
  /\ [][(isLongpoll /\ live /\ ~aborted /\ pc = "backoff"
         /\ pc' # "backoff") =>
          (pc' = "fetch" /\ reqCount' = reqCount + 1)]_vars

\* C11 witness: a batch was yielded, a later request failed, and the third
\* request is in flight with the token not cancelled
C11_Witness ==
  /\ isLongpoll /\ live /\ ~aborted
  /\ Len(yielded) >= 1 /\ thrownCnt >= 1
  /\ pc = "fetch" /\ reqCount = 3

\* C12: requests are strictly sequential: at any moment at most one request
\* is in flight and not cancelled, so a request is never issued while an
\* earlier one is still open with its token uncancelled.
C12_RequestsSequential ==
  (IF curOpen THEN 1 ELSE 0) + staleOpen <= 1

\* C13: once the feed is terminal (the overall token is cancelled or the
\* iteration has ended) no timer of the client is armed, neither the
\* heartbeat timer nor the backoff sleep.
C13_NoTimerAfterTerminal ==
  (aborted \/ pc = "done") => (~hbArmed /\ ~sleepArmed)

\* C14: however the iteration ends (exhaustion, consumer return, thrown
\* error, stop), the overall token is cancelled and with it the token of the
\* request: no request is left in flight with an uncancelled token.
C14_EndCancelsToken ==
  pc = "done" => (aborted /\ childAborted /\ ~curOpen /\ staleOpen = 0)

\* the consumer left the loop while the body of a streaming request was open
C14_Witness ==
  /\ pc = "done" /\ outcome = "closed"
  /\ isContinuous /\ ~rdDone /\ thrownCnt = 0 /\ stopAt = Unset
  /\ aborted /\ childAborted /\ ~curOpen

\* C15: the step that cancels the overall token of a running generator
\* cancels the current child token and clears the pending heartbeat timer,
\* also when that child was re-created after a heartbeat timeout.
C15_CancelCascades ==
  [][(~aborted /\ aborted' /\ pc # "idle") =>
       (childAborted' /\ ~hbArmed' /\ ~curOpen' /\ staleOpen' = 0)]_vars

\* stop() reached a request issued after a heartbeat timeout and its retry
C15_Witness ==
  /\ aborted /\ childAborted /\ ~hbArmed
  /\ error = "heartbeat" /\ ~suppressed
  /\ reqCount >= 2 /\ pc = "read" /\ stopAt = Unset /\ outcome = "none"

\* C16: the expiry of the heartbeat timer cancels the child token and leaves
\* the overall token as it is; with live=true the heartbeat failure leads to
\* the backoff with the overall token uncancelled, and the backoff to a new
\* request with a new child token from the current cursor (the last seq
\* seen, or the since option while no seq has been seen).
C16_TimeoutCancelsChildOnly ==
  /\ [][(~hbRejected /\ hbRejected') =>
          (aborted' = aborted /\ childAborted')]_vars
  /\ [][(live /\ ~aborted /\ thrownCnt' > thrownCnt /\ error' = "heartbeat") =>
          (pc' = "backoff" /\ ~aborted')]_vars
  /\ [][(live /\ ~aborted' /\ error = "heartbeat"
         /\ pc = "backoff" /\ pc' # "backoff") =>
          (pc' = "fetch" /\ reqCount' = reqCount + 1
           /\ reqSince' = (IF activeSeq # Unset THEN activeSeq ELSE since)
           /\ ~childAborted' /\ curOpen')]_vars

\* a record was yielded, the heartbeat timed out, the retry asks since it
C16_Witness ==
  /\ live /\ ~aborted /\ error = "heartbeat"
  /\ pc = "fetch" /\ reqCount = 2 /\ ~childAborted
  /\ Len(yielded) >= 1 /\ reqSince = activeSeq /\ activeSeq # Unset

\* C17: stop() on a stopped client changes nothing, a cancelled overall token
\* stays cancelled, and an iteration started on a stopped client or after an
\* iteration has ended issues no request and yields no record.
C17_StoppedIsFinal ==
  /\ [](aborted => Abort(Cur) = Cur)
  /\ [](again => aborted)
  /\ [][aborted => aborted']_vars
  /\ [][((pc = "idle" /\ aborted) \/ again') =>
          (reqCount' = reqCount /\ yielded' = yielded
           /\ pc' \in {"idle", "done"})]_vars

\* stopped while holding a record, iterated again to the end
C17_Witness ==
  /\ again /\ pc = "done" /\ outcome = "clean" /\ lastPull = "done"
  /\ stopAt # Unset /\ Len(yielded) = stopAt /\ reqCount = 1

\* C18: with the watchdog active the timer is armed for the full threshold
\* when a request is issued and after every chunk read, a chunk holding only
\* part of a line included; such a chunk replaces the pending deadline and
\* raises no heartbeat error.
C18_ChunkRearmsDeadline ==
  /\ [][(usesHeartbeat /\ reqCount' > reqCount) =>
          (hbArmed' /\ hbPhase' = "full" /\ ~hbRejected')]_vars
  /\ [][(usesHeartbeat /\ ~aborted /\ ~hbRejected
         /\ Len(received') > Len(received)) =>
          /\ ~(thrownCnt' > thrownCnt /\ error' = "heartbeat")
          /\ thrownCnt' = thrownCnt =>
               (hbArmed' /\ hbPhase' = "full" /\ ~hbRejected'
                /\ ~childAborted' /\ pc' \in {"read", "line"})]_vars

\* a chunk that ends in the middle of a line has been read
C18_Witness ==
  /\ usesHeartbeat /\ ~aborted /\ pc = "read"
  /\ received # <<>> /\ buffer # <<>> /\ ~(NL \in {buffer[i] : i \in 1..Len(buffer)})
  /\ hbArmed /\ hbPhase = "full" /\ thrownCnt = 0

\* the threshold of the heartbeat option h, from the examples of the tests
THRESHOLD(h) ==
  CASE h = 3000 -> 4000
    [] h = 20000 -> 22000
    [] h = 30000 -> 33000
    [] h = 0 -> 1000
    [] OTHER -> 66000

\* C19: the heartbeat timer is set to interval + max(interval/10, 1000) ms
\* (20000 gives 22000, 30000 gives 33000, 3000 gives 4000, no number gives
\* 66000), it expires only when that whole delay has passed without a
\* chunk, and with live=false the heartbeat failure ends the iteration with
\* an error.
C19_Threshold ==
  /\ [](hbArmed => hbDelay = THRESHOLD(heartbeat))
  /\ [][(~hbRejected /\ hbRejected') => (hbArmed /\ hbPhase = "part")]_vars
  /\ [][(~live /\ ~aborted /\ thrownCnt' > thrownCnt
         /\ error' = "heartbeat") =>
          (pc' = "done" /\ outcome' = "error" /\ lastPull' = "error")]_vars

\* heartbeat 3000: silence for 4000 ms ended the iteration with the error
C19_Witness ==
  /\ heartbeat = 3000 /\ hbDelay = 4000
  /\ ~live /\ pc = "done" /\ outcome = "error" /\ error = "heartbeat"
  /\ received = <<>>

\* C20: a heartbeat timer is armed only for a continuous or eventsource feed
\* whose heartbeat option is neither 0 nor false.
C20_WatchdogOnlyWhenEnabled ==
  hbArmed => ((isContinuous \/ isEventsource)
              /\ heartbeat # 0 /\ heartbeat # HbFalse)

\* the base delay before the retry that follows the k-th failure, from the
\* series 200, 400, 800, ... capped at 30000
BASE(k) ==
  CASE k = 1 -> 200
    [] k = 2 -> 400
    [] k = 3 -> 800
    [] k = 4 -> 1600
    [] k = 5 -> 3200
    [] k = 6 -> 6400
    [] k = 7 -> 12800
    [] k = 8 -> 25600
    [] OTHER -> 30000

\* C21: the step into the backoff that follows the k-th retryable failure
\* increments the counter to k and arms a sleep of min(2^k * 100, 30000) ms
\* plus a jitter in [0, 100); the sleep is never longer than 30000 ms plus
\* jitter, and a retry request is issued only by the step in which the sleep
\* timer expires.
C21_BackoffDelay ==
  /\ [][(pc # "backoff" /\ pc' = "backoff") =>
          /\ retryCount' = retryCount + 1
          /\ sleepArmed'
          /\ sleepDelay' - BASE(retryCount') \in 0..99]_vars
  /\ [](sleepDelay <= 30099)
  /\ [][(reqCount' > reqCount /\ pc \notin {"idle", "batch"}) =>
          (pc = "backoff" /\ sleepArmed /\ ~sleepArmed')]_vars

\* the sleep after the ninth failure is at the cap with the largest jitter
C21_Witness ==
  /\ pc = "backoff" /\ sleepArmed /\ ~aborted
  /\ retryCount = 9 /\ sleepDelay = 30099

\* C22: within an iteration retryCount never decreases and grows by exactly
\* one in each retryable failure (an error caught with live=true and the
\* overall token not cancelled) and in no other step, so a failure after a
\* reconnect that yielded records sleeps the delay of the next higher count.
C22_RetryCountMonotone ==
  /\ [][pc' # "idle" =>
          /\ retryCount' >= retryCount
          /\ retryCount' = retryCount + 1 <=>
               (live /\ ~aborted /\ thrownCnt' > thrownCnt)]_vars
  /\ [][(pc # "backoff" /\ pc' = "backoff") =>
          sleepDelay' - BASE(retryCount + 1) \in 0..99]_vars

\* record 1, a failure, a reconnect that yielded record 2, a second failure:
\* the sleep is the one of count 2
C22_Witness ==
  /\ pc = "backoff" /\ retryCount = 2 /\ sleepDelay \in 400..499
  /\ since = Unset /\ reqCount = 2 /\ reqSince = 1
  /\ yielded = <<1, 2>> /\ activeSeq = 2

\* C23: with limit set to k the iteration yields at most k records in
\* total, however many requests it issues.
C23_LimitBoundsTotal ==
  limit # Unset => Len(yielded) <= limit

\* C28: the body of every request is {doc_ids} when doc_ids is a non-empty
\* list, else {selector} when selector is a non-empty object, else absent;
\* the method is POST exactly when there is a body, and Content-Type:
\* application/json is sent exactly when there is a body.
C28_BodyAndMethod ==
  reqCount >= 1 =>
    /\ request.body = (IF doc_ids = "ids" THEN "doc_ids"
                       ELSE IF selector = "sel" THEN "selector"
                       ELSE "none")
    /\ request.method = (IF request.body # "none" THEN "POST" ELSE "GET")
    /\ request.contentType = (request.body # "none")

\* the config fields that are defined and not the empty string, without
\* doc_ids, selector, live, fetch and abortController
SERIALIZED ==
  {"feed"}
  \cup (IF since # Unset THEN {"since"} ELSE {})
  \cup (IF heartbeat # Unset THEN {"heartbeat"} ELSE {})
  \cup (IF limit # Unset THEN {"limit"} ELSE {})
  \cup (IF filter \notin {"undefined", ""} THEN {"filter"} ELSE {})

\* C29 as stated: the query string of every request contains exactly the
\* config fields that are defined and not empty, except doc_ids, selector
\* and live; fetch and abortController never appear.
C29_QueryIsConfig ==
  reqCount >= 1 => request.query = SERIALIZED

\* C29 as amended: the query string of every request contains the config
\* fields that are defined and not empty, except doc_ids, selector and live,
\* and besides them only since, which is present exactly when the option is
\* set or the client holds a cursor; fetch and abortController never appear.
C29_QueryIsConfigAndCursor ==
  reqCount >= 1 =>
    /\ request.query \ {"since"} = SERIALIZED \ {"since"}
    /\ "since" \in request.query <=> reqSince # Unset
    /\ since # Unset => "since" \in request.query

\* a second longpoll request of a client given a filter, a limit and its own
\* fetch but no since
C29_Witness ==
  /\ reqCount = 2 /\ since = Unset /\ filter = "f" /\ limit = 1 /\ injected
  /\ request.query = {"feed", "heartbeat", "limit", "filter", "since"}

\* C30: every request carries an Authorization: Basic header exactly when
\* the base URL embeds userinfo, and the URL given to the transport never
\* contains userinfo.
C30_BasicAuthFromUserinfo ==
  reqCount >= 1 =>
    /\ request.authorization = (userinfo # "none")
    /\ ~request.urlUserinfo

HasNL(bytes) == \E i \in 1..Len(bytes) : bytes[i] = NL

\* what follows the last newline of bytes
RECURSIVE Remainder(_)
Remainder(bytes) ==
  LET nl == JsIndexOf(bytes, NL, 0)
  IN IF nl < 0 THEN bytes ELSE Remainder(SubSeq(bytes, nl + 2, Len(bytes)))

\* some complete line of the body is neither blank, nor an event: line, nor
\* JSON (after data: is stripped)
RECURSIVE Malformed(_, _)
Malformed(bytes, es) ==
  LET nl == JsIndexOf(bytes, NL, 0)
  IN IF nl < 0 THEN FALSE
     ELSE LET raw == Trim(SubSeq(bytes, 1, nl))
              rest == SubSeq(bytes, nl + 2, Len(bytes))
              body == IF es /\ raw # <<>> /\ Head(raw) = "D"
                      THEN Tail(raw) ELSE raw
          IN IF es /\ raw # <<>> /\ Head(raw) = "E" THEN Malformed(rest, es)
             ELSE IF Trim(body) = <<>> THEN Malformed(rest, es)
             ELSE ParseFails(body) \/ Malformed(rest, es)

\* C24: in continuous and eventsource mode the records yielded, the pending
\* partial line and the outcome are a function of the bytes received, not of
\* the chunks they came in: whenever the client waits for the next chunk it
\* has yielded the records of the complete lines received and buffers what
\* follows the last newline; a body that ended has yielded all its records
\* and ends cleanly; a parse failure means a malformed complete line.
C24_ChunkingIrrelevant ==
  ((isContinuous \/ isEventsource) /\ reqCount = 1) =>
    /\ (pc = "read" /\ thrownCnt = 0) =>
         /\ yielded = WireRecords(received, isEventsource)
         /\ buffer = Remainder(received)
         /\ ~Malformed(received, isEventsource)
    /\ (pc = "done" /\ rdDone /\ thrownCnt = 0) =>
         /\ yielded = WireRecords(received, isEventsource)
         /\ ~Malformed(received, isEventsource)
         /\ outcome = "clean"
    /\ (error = "parse" /\ thrownCnt = 1) =>
         /\ yielded = WireRecords(received, isEventsource)
         /\ Malformed(received, isEventsource)

\* two records read in chunks that end inside a line
C24_Witness ==
  /\ isContinuous /\ reqCount = 1 /\ thrownCnt = 0 /\ since = Unset
  /\ pc = "read" /\ yielded = <<1>>
  /\ buffer = <<"2">> /\ received = <<"1", "}", NL, "2">> /\ wire = <<"}", NL>>

\* the body with its event-stream framing removed: event: lines and blank
\* lines dropped, data: stripped, one document per line
RECURSIVE Plain(_)
Plain(bytes) ==
  LET nl == JsIndexOf(bytes, NL, 0)
  IN IF nl < 0 THEN <<>>
     ELSE LET raw == Trim(SubSeq(bytes, 1, nl))
              rest == SubSeq(bytes, nl + 2, Len(bytes))
          IN IF raw = <<>> \/ Head(raw) = "E" THEN Plain(rest)
             ELSE IF Head(raw) = "D"
             THEN (IF Trim(Tail(raw)) = <<>> THEN Plain(rest)
                   ELSE Trim(Tail(raw)) \o <<NL>> \o Plain(rest))
             ELSE raw \o <<NL>> \o Plain(rest)

\* C25: in eventsource mode the records yielded are those the continuous
\* framing gives for the documents of the data: lines sent one per line, in
\* order; event: lines yield nothing, and a parse error means that a
\* document is malformed, never that an event: line was met.
C25_EventsourceAsContinuous ==
  (isEventsource /\ reqCount = 1) =>
    /\ ((pc = "read" \/ (pc = "done" /\ rdDone)) /\ thrownCnt = 0) =>
         /\ yielded = WireRecords(Plain(received), FALSE)
         /\ ~Malformed(Plain(received), FALSE)
    /\ (error = "parse" /\ thrownCnt = 1) =>
         /\ yielded = WireRecords(Plain(received), FALSE)
         /\ Malformed(Plain(received), FALSE)

\* two frames event:/data:/blank line gave the records 1 and 2
C25_Witness ==
  /\ isEventsource /\ since = Unset /\ reqCount = 1 /\ thrownCnt = 0
  /\ pc = "done" /\ rdDone /\ outcome = "clean"
  /\ yielded = <<1, 2>>
  /\ received = <<"E", NL, "D", WS, "1", "}", NL, NL,
                  "E", NL, "D", WS, "2", "}", NL, NL>>

\* C26: a chunk is read only while the generator waits in reader.read(),
\* which it enters only when no complete line is left in its buffer, so never
\* while the consumer holds a record; each step hands over at most one
\* record.
C26_Backpressure ==
  /\ [][Len(received') > Len(received) =>
          (pc = "read" /\ ~HasNL(buffer))]_vars
  /\ [][Len(yielded') <= Len(yielded) + 1]_vars
  /\ [](pc = "read" => ~HasNL(buffer))

\* the consumer holds record 1 while the line of record 2, read in the same
\* chunk, waits in the buffer and the server has written more
C26_Witness ==
  /\ pc = "line" /\ ~aborted /\ Len(yielded) = 1
  /\ HasNL(buffer) /\ wire # <<>>

\* C27: a constructed client has issued no request; the first pull issues
\* the first request, unless the overall token is cancelled by then: in that
\* case the pull ends the iteration cleanly, without a request, a record or
\* an error.
C27_FirstPullStarts ==
  /\ []((pc = "idle" /\ ~again) =>
          (reqCount = 0 /\ ~curOpen /\ request.method = "none"))
  /\ [][(pc = "idle" /\ pc' = "idle") => reqCount' = reqCount]_vars
  /\ [][(pc = "idle" /\ ~aborted /\ pc' # "idle") =>
          (pc' = "fetch" /\ reqCount' = reqCount + 1 /\ curOpen')]_vars
  /\ [][(pc = "idle" /\ aborted /\ pc' # "idle") =>
          (pc' = "done" /\ outcome' = "clean" /\ lastPull' = "done"
           /\ reqCount' = reqCount /\ thrownCnt' = thrownCnt
           /\ yielded' = yielded)]_vars

\* stop() before the first pull: the pull found the token cancelled
C27_Witness ==
  /\ pc = "done" /\ ~again /\ aborted
  /\ reqCount = 0 /\ outcome = "clean" /\ yielded = <<>> /\ thrownCnt = 0

\* C31: in normal and longpoll mode the step that yields a record of a batch
\* leaves the cursor as it is (the cursor moves to last_seq once the batch is
\* done); in continuous and eventsource mode the step that yields a record
\* sets the cursor to the seq of that record.
C31_CursorAfterBatch ==
  /\ [][((isNormal \/ isLongpoll) /\ Len(yielded') > Len(yielded)) =>
          activeSeq' = activeSeq]_vars
  /\ [][((isContinuous \/ isEventsource) /\ Len(yielded') > Len(yielded)) =>
          activeSeq' = yielded'[Len(yielded')]]_vars

\* C32: the cursor is never rolled back: once set, activeSeq is never unset
\* again, whatever JSON lines the server sends, so a request issued after
\* that carries the cursor and never falls back to the configured since.
C32_CursorNeverUnset ==
  /\ [][activeSeq # Unset => activeSeq' # Unset]_vars
  /\ [][(everSet /\ reqCount' > reqCount) =>
          (activeSeq # Unset /\ reqSince' = activeSeq)]_vars

\* bytes holds nothing but newlines and white space
BlankOnly(bytes) == \A i \in 1..Len(bytes) : bytes[i] \in {NL, WS}

\* the body without its lines that are empty after trimming
RECURSIVE NoBlank(_)
NoBlank(bytes) ==
  LET nl == JsIndexOf(bytes, NL, 0)
  IN IF nl < 0 THEN bytes
     ELSE LET rest == NoBlank(SubSeq(bytes, nl + 2, Len(bytes)))
          IN IF Trim(SubSeq(bytes, 1, nl)) = <<>> THEN rest
             ELSE SubSeq(bytes, 1, nl + 1) \o rest

\* the documents of a body that has one JSON document on every line
RECURSIVE LineSeqs(_)
LineSeqs(bytes) ==
  LET nl == JsIndexOf(bytes, NL, 0)
  IN IF nl < 0 \/ ParseFails(SubSeq(bytes, 1, nl)) THEN <<>>
     ELSE <<ParsedSeq(SubSeq(bytes, 1, nl))>>
            \o LineSeqs(SubSeq(bytes, nl + 2, Len(bytes)))

\* C33: in continuous and eventsource mode a chunk of blank lines that
\* arrives while the stream is open and no partial line is pending yields
\* nothing, raises nothing and does not end the feed: the client goes on
\* waiting for the next chunk; and the records yielded are those of the
\* body with its blank lines taken out, in order.
C33_BlankLineSkipped ==
  /\ [][((isContinuous \/ isEventsource) /\ pc = "read" /\ ~aborted
           /\ Trim(buffer) = <<>>
           /\ Len(received') > Len(received)
           /\ BlankOnly(SubSeq(received', Len(received) + 1, Len(received'))))
          => /\ pc' = "read"
             /\ yielded' = yielded
             /\ thrownCnt' = thrownCnt
             /\ outcome' = outcome]_vars
  /\ []((reqCount = 1 /\ thrownCnt = 0 /\ pc = "read") =>
          /\ isContinuous => yielded = LineSeqs(NoBlank(received))
          /\ isEventsource => yielded = LineSeqs(Plain(received)))

\* a keep-alive newline between two records, both yielded
C33_Witness ==
  /\ isContinuous /\ reqCount = 1 /\ thrownCnt = 0 /\ since = Unset
  /\ received = <<"1", "}", NL, NL, "2", "}", NL>>
  /\ yielded = <<1, 2>> /\ pc = "line" /\ ~rdDone

\* the number of complete lines of an eventsource body that carry a
\* document: not blank, not an event: line, and not a bare data:
RECURSIVE Docs(_)
Docs(bytes) ==
  LET nl == JsIndexOf(bytes, NL, 0)
  IN IF nl < 0 THEN 0
     ELSE LET raw == Trim(SubSeq(bytes, 1, nl))
              rest == SubSeq(bytes, nl + 2, Len(bytes))
          IN IF raw = <<>> \/ Head(raw) = "E" \/ Trim(raw) = <<"D">>
             THEN Docs(rest)
             ELSE 1 + Docs(rest)

\* some complete line of the body starts with neither event: nor data: and
\* is neither blank nor JSON
RECURSIVE BadUnprefixed(_)
BadUnprefixed(bytes) ==
  LET nl == JsIndexOf(bytes, NL, 0)
  IN IF nl < 0 THEN FALSE
     ELSE LET raw == Trim(SubSeq(bytes, 1, nl))
          IN \/ (raw # <<>> /\ Head(raw) \notin {"E", "D"} /\ ParseFails(raw))
             \/ BadUnprefixed(SubSeq(bytes, nl + 2, Len(bytes)))

\* C34: in eventsource mode a line with neither prefix is parsed as JSON
\* like a continuous-mode line: while nothing failed every such line that
\* is a document was yielded like the data: lines, and once the generator
\* has gone through a line that is not JSON a parse failure was raised;
\* that failure is retried (backoff, one more retry counted) when live and
\* ends the iteration with the error when not live.
C34_UnprefixedLineParsed ==
  /\ []((isEventsource /\ reqCount = 1 /\ thrownCnt = 0 /\ pc = "read") =>
          /\ Len(yielded) = Docs(received)
          /\ ~BadUnprefixed(received))
  /\ []((isEventsource /\ reqCount = 1 /\ ~aborted /\ pc # "line"
           /\ BadUnprefixed(received)) => error = "parse")
  /\ [][(isEventsource /\ ~aborted /\ thrownCnt' > thrownCnt
           /\ error' = "parse") =>
          IF live THEN pc' = "backoff" /\ retryCount' = retryCount + 1
                       /\ outcome' = "none"
                  ELSE pc' = "done" /\ outcome' = "error"]_vars

\* a line without prefix that is not JSON, met by a live eventsource feed
C34_Witness ==
  /\ isEventsource /\ live /\ reqCount = 1 /\ ~aborted
  /\ received = <<"x", NL>> /\ error = "parse"
  /\ pc = "backoff" /\ retryCount = 1 /\ yielded = <<>>

\* a document on a line without prefix, yielded by an eventsource feed
C34_WitnessBare ==
  /\ isEventsource /\ reqCount = 1 /\ thrownCnt = 0
  /\ received = <<"o", NL>> /\ yielded = <<Unset>> /\ pc = "line"

\* C35: in continuous and eventsource mode the step in which the body ends
\* cleanly ends the iteration, live or not: it issues no request and starts
\* no backoff, and as long as that iteration is the current one no request
\* is issued.
C35_CleanEndNoReconnect ==
  /\ [][((isContinuous \/ isEventsource) /\ ~rdDone /\ rdDone') =>
          /\ pc' = "done" /\ outcome' = "clean"
          /\ reqCount' = reqCount /\ ~sleepArmed']_vars
  /\ []((isContinuous \/ isEventsource) /\ rdDone => pc = "done")
  /\ [][((isContinuous \/ isEventsource) /\ rdDone) =>
          reqCount' = reqCount]_vars

\* a live continuous feed whose only connection was closed by the server
\* after one change
C35_Witness ==
  /\ isContinuous /\ live /\ pc = "done" /\ rdDone /\ outcome = "clean"
  /\ reqCount = 1 /\ thrownCnt = 0 /\ stopAt = Unset
  /\ received = <<"1", "}", NL>> /\ yielded = <<1>>

\* C36: when a continuous or eventsource body has ended cleanly, every
\* non-blank line received, the last one included even when no newline
\* ends it, was yielded as a record or raised a parse error: the records
\* yielded are those of the body with its last line completed.
C36_NoSilentDrop ==
  ((isContinuous \/ isEventsource) /\ reqCount = 1 /\ thrownCnt = 0
     /\ pc = "done" /\ rdDone /\ outcome = "clean") =>
    yielded = WireRecords(received \o <<NL>>, isEventsource)

\* C37: the heartbeat deadline passes only while the client waits on the
\* transport (for the response, its body or the next chunk); while the
\* generator is suspended on a yielded record no time counts toward the
\* deadline, no heartbeat timeout occurs and the request in flight is not
\* cancelled unless the consumer stops the feed.
C37_TimeoutOnlyWhileWaiting ==
  /\ [][(~hbRejected /\ hbRejected') =>
          pc \in {"fetch", "text", "json", "read"}]_vars
  /\ [][(pc = "line" /\ pc' = "line" /\ ~aborted') =>
          /\ hbPhase' = hbPhase
          /\ childAborted' = childAborted
          /\ curOpen' = curOpen]_vars

\* C39: every step that issues a request issues it with a request token
\* that is not cancelled: the connection is open when the step ends, in
\* every feed mode and after any number of heartbeat timeouts and retries.
C39_RequestTokenFresh ==
  [][reqCount' > reqCount =>
       /\ ~childAborted' /\ ~aborted'
       /\ curOpen' /\ pc' = "fetch"]_vars

\* the third request of a live feed, after two heartbeat timeouts each of
\* which cancelled the request token
C39_Witness ==
  /\ live /\ ~aborted /\ error = "heartbeat" /\ thrownCnt = 2
  /\ retryCount = 2 /\ reqCount = 3
  /\ pc = "fetch" /\ ~childAborted /\ curOpen

\* C38: every connection starts with an empty parse buffer: the step in
\* which the response arrives and the body starts to be read leaves the
\* buffer empty, whatever a failed connection left pending, and whenever
\* the client waits for a chunk the buffer is what follows the last newline
\* of the bytes received on this connection, on every connection.
C38_BufferPerConnection ==
  /\ [][(pc = "fetch" /\ pc' = "read") => buffer' = <<>>]_vars
  /\ []((isContinuous \/ isEventsource) /\ pc = "read" =>
          buffer = Remainder(received))

\* the second connection of a live feed is being opened while the partial
\* line of the first, which failed in transport, is still pending
C38_Witness ==
  /\ isContinuous /\ live /\ ~aborted /\ since = Unset
  /\ error = "transport" /\ thrownCnt = 1
  /\ reqCount = 2 /\ pc = "fetch" /\ received = <<>>
  /\ buffer = <<"1">> /\ yielded = <<>>

\* C40: the abortController the caller supplied is aborted whenever an
\* iteration ends: the step that ends an iteration whose controller was
\* not aborted (so without any stop() or abort() by the caller) aborts it,
\* and after an iteration has ended the controller is never found
\* un-aborted.
C40_SuppliedControllerAborted ==
  /\ [][(injected /\ ~aborted /\ pc # "done" /\ pc' = "done") =>
          (aborted' /\ ~stopped')]_vars
  /\ [](injected /\ (pc = "done" \/ again) => aborted)

\* a non-live continuous feed with a supplied controller ran to the clean
\* end of its body and nobody called stop()
C40_Witness ==
  /\ injected /\ isContinuous /\ ~live /\ ~stopped
  /\ pc = "done" /\ rdDone /\ outcome = "clean" /\ lastPull = "done"
  /\ thrownCnt = 0 /\ reqCount = 1 /\ Len(yielded) >= 1
  /\ aborted
====
